---- MODULE Spec2Model ----
(***************************************************************************)
(* Model of src/alc.rs: the ALC device layer of the OpenAL wrapper.        *)
(*                                                                         *)
(* Four specifications:                                                    *)
(*   Spec       threads calling the public entry points (default_*,        *)
(*              enumerate_*, the three open functions) and dropping the    *)
(*              structs, against a native API whose answers are chosen     *)
(*              nondeterministically;                                      *)
(*   SpecPure   parse_enum_spec applied to every double-zero-terminated    *)
(*              buffer over a small alphabet, and get_error to every code; *)
(*   SpecQuery  threads calling is_extension_present on one open device    *)
(*              and dropping it; SpecQueryFair adds a fair scheduler;      *)
(*   SpecOpen   threads calling the open functions once the gate has       *)
(*              passed and the error register is clean.                    *)
(***************************************************************************)
EXTENDS Integers, Sequences, FiniteSets, TLC

(* ------------------------------ bounds -------------------------------- *)

\* total number of entry-point calls in a run
MaxCalls == 2
\* total number of capability queries in a run
MaxQueries == 2
\* number of native device handles the native API can hand out
MaxHandles == 2
\* longest buffer given to parse_enum_spec
MaxBufLen == 5
\* largest non-zero byte of the buffer alphabet
MaxByte == 2
\* largest major / minor version number the native API may report
MaxVersion == 2

(* ----------------------- native API constants ------------------------- *)

ALC_NO_ERROR == 0
ALC_INVALID_DEVICE == 40961
ALC_INVALID_CONTEXT == 40962
ALC_INVALID_ENUM == 40963
ALC_INVALID_VALUE == 40964
ALC_OUT_OF_MEMORY == 40965

\* codes outside the five the wrapper recognises
OtherCodes == {40966}

\* every non-zero code alcGetError can return
NativeErrors ==
    {ALC_INVALID_DEVICE, ALC_INVALID_CONTEXT, ALC_INVALID_ENUM,
     ALC_INVALID_VALUE, ALC_OUT_OF_MEMORY} \cup OtherCodes

\* the codes the native calls of Spec leave in the register when they fail
RaisedErrors == {ALC_INVALID_DEVICE, ALC_INVALID_VALUE, ALC_OUT_OF_MEMORY}

\* the null device pointer
NullDev == 0

\* the threads calling into the module: two, so that calls overlap
Threads == {1, 2}
Handles == 1..MaxHandles

VARIABLES
    verMajor, verMinor,   \* what the native API reports as its version
    gateState,            \* ALC_INIT: "uninit", "running", "done"
    gateVal,              \* ALC_INIT's value once computed
    nMajorQ, nMinorQ,     \* native version queries issued so far
    observed,             \* every value a dereference of ALC_INIT returned
    lastErr,              \* the global (null-device) native error register
    nextDev,              \* next native handle the native API hands out
    hState,               \* native handle: "unopened", "open", "closed"
    closeCalls,           \* alcCloseDevice calls per native handle
    objKind,              \* wrapper struct owning the handle, or "none"
    objState,             \* wrapper struct: "none", "live", "dropped"
    cache,                \* per device, per extension: "none"/"unpop"/"present"/"absent"
    lookups,              \* native extension lookups per device and extension
    lock,                 \* holder of the device's cache mutex, 0 when free
    pc, op,               \* per thread: position, entry point
    major,                \* per thread: local `major` of the ALC_INIT initializer
    dev,                  \* per thread: native handle / receiver of the call
    spec,                 \* per thread: device specifier passed to native open
    key,                  \* per thread: extension asked for
    errCode,              \* per thread: last code read by get_error
    errRes,               \* per thread: what get_error made of it
    res,                  \* per thread: result of the finished call
    strp,                 \* per thread: buffer returned by alcGetString
    list,                 \* per thread: result of parse_enum_spec / the string
    trace,                \* per thread: native calls issued by the current call
    calls,                \* entry-point calls started so far
    queries,              \* capability queries started so far
    pBuf, pPc, pRes       \* SpecPure: buffer, position, result of the parse

envVars == <<verMajor, verMinor>>
gateVars == <<gateState, gateVal, nMajorQ, nMinorQ, observed>>
devVars == <<nextDev, hState, closeCalls, objKind, objState>>
cacheVars == <<cache, lookups, lock>>
thrVars == <<pc, op, major, dev, spec, key, errCode, errRes, res, strp, list, trace, calls, queries>>
parseVars == <<pBuf, pPc, pRes>>
vars == <<envVars, gateVars, lastErr, devVars, cacheVars, thrVars, parseVars>>

(* --------------------------- error translator ------------------------- *)

\* From_ALCenum with the ALC_INVALID_VALUE arm missing
From_ALCenum_NoValueArm(al) ==
    CASE al = ALC_INVALID_DEVICE -> "InvalidDevice"
      [] al = ALC_INVALID_CONTEXT -> "InvalidContext"
      [] al = ALC_INVALID_ENUM -> "InvalidEnum"
      [] al = ALC_OUT_OF_MEMORY -> "OutOfMemory"
      [] OTHER -> "UnknownError"

\* impl From<sys::ALCenum> for AlcError
From_ALCenum(al) ==
    CASE al = ALC_INVALID_DEVICE -> "InvalidDevice"
      [] al = ALC_INVALID_CONTEXT -> "InvalidContext"
      [] al = ALC_INVALID_ENUM -> "InvalidEnum"
      [] al = ALC_INVALID_VALUE -> "InvalidValue"
      [] al = ALC_OUT_OF_MEMORY -> "OutOfMemory"
      [] OTHER -> "UnknownError"

\* get_error, applied to the code alcGetError returned
get_error(e) == IF e = ALC_NO_ERROR THEN "Ok" ELSE From_ALCenum(e)

\* what a native call may leave in the error register: untouched, or a code
ErrAfterNativeCall(old) == {old} \cup RaisedErrors

(* --------------------------- enumeration parser ----------------------- *)

Bytes == 0..MaxByte

\* ptr::read(spec.offset(i))
ByteAt(buf, i) == buf[i + 1]

\* ScanLoop breaking at the first zero byte, whatever follows it
RECURSIVE ScanLoop_SingleZero(_, _, _)
ScanLoop_SingleZero(buf, i, reads) ==
    IF i >= Len(buf)
    THEN [i |-> i, reads |-> reads, oob |-> TRUE]
    ELSE IF ByteAt(buf, i) = 0
    THEN [i |-> i, reads |-> reads \cup {i}, oob |-> FALSE]
    ELSE ScanLoop_SingleZero(buf, i + 1, reads \cup {i})

\* the scan loop of parse_enum_spec from index i on: the index it breaks at,
\* the offsets it read, and whether it ran past the end of the buffer
RECURSIVE ScanLoop(_, _, _)
ScanLoop(buf, i, reads) ==
    IF i >= Len(buf)
    THEN [i |-> i, reads |-> reads, oob |-> TRUE]
    ELSE IF ByteAt(buf, i) # 0
    THEN ScanLoop(buf, i + 1, reads \cup {i})
    ELSE IF i + 1 >= Len(buf)
    THEN [i |-> i, reads |-> reads \cup {i}, oob |-> TRUE]
    ELSE IF ByteAt(buf, i + 1) = 0
    THEN [i |-> i, reads |-> reads \cup {i, i + 1}, oob |-> FALSE]
    ELSE ScanLoop(buf, i + 1, reads \cup {i, i + 1})

\* index of the first zero byte of s, 0 when there is none
FirstZero(s) ==
    IF \E j \in 1..Len(s) : s[j] = 0
    THEN CHOOSE j \in 1..Len(s) : s[j] = 0 /\ \A m \in 1..(j - 1) : s[m] # 0
    ELSE 0

\* slice.split(|c| *c == 0): the pieces between zero bytes; one (empty)
\* piece for an empty slice
RECURSIVE Split(_)
Split(s) ==
    IF FirstZero(s) = 0
    THEN <<s>>
    ELSE <<SubSeq(s, 1, FirstZero(s) - 1)>> \o Split(SubSeq(s, FirstZero(s) + 1, Len(s)))

\* CString::new(d) fails exactly when d holds a zero byte
HasNul(d) == \E j \in 1..Len(d) : d[j] = 0

\* SliceLen taking the first terminating zero into the slice
SliceLen_PlusOne(i) == i + 1

\* SliceLen dropping the last byte before the terminator
SliceLen_MinusOne(i) == IF i > 0 THEN i - 1 ELSE 0

\* slice::from_raw_parts(spec, i as usize): the length of the slice that is split
SliceLen(i) == i

\* parse_enum_spec: gate is the value of ALC_INIT, buf the memory at spec
parse_enum_spec(gate, buf) ==
    IF gate # "Ok"
    THEN [res |-> gate, specs |-> <<>>, i |-> 0, reads |-> {}]
    ELSE LET sc == ScanLoop(buf, 0, {})
             pieces == Split(SubSeq(buf, 1, SliceLen(sc.i)))
         IN  IF sc.oob
             THEN [res |-> "undefined", specs |-> <<>>, i |-> sc.i, reads |-> sc.reads]
             ELSE IF \E j \in 1..Len(pieces) : HasNul(pieces[j])
             THEN [res |-> "panic", specs |-> <<>>, i |-> sc.i, reads |-> sc.reads]
             ELSE [res |-> "Ok", specs |-> pieces, i |-> sc.i, reads |-> sc.reads]

\* CStr::from_ptr(p).to_owned(): the bytes before the first zero byte
CStrOf(buf) == IF FirstZero(buf) = 0 THEN buf ELSE SubSeq(buf, 1, FirstZero(buf) - 1)

\* a buffer holds two consecutive zero bytes
HasDoubleZero(buf) == \E j \in 1..(Len(buf) - 1) : buf[j] = 0 /\ buf[j + 1] = 0

\* the memory a native string query can point at: a double-zero somewhere,
\* anything after it
ValidBuffers ==
    {b \in UNION {[1..n -> Bytes] : n \in 2..MaxBufLen} : HasDoubleZero(b)}

\* what alcGetString answers in Spec
NativeStrings == {<<0, 0>>, <<1, 0, 2, 0, 0>>}

(* ------------------------------ entry points -------------------------- *)

DefaultOps == {"default_impl", "default_output", "default_capture"}
EnumerateOps == {"enumerate_impls", "enumerate_outputs", "enumerate_captures"}
OpenOps == {"Device_open", "LoopbackDevice_open", "CaptureDevice_open"}
Ops == DefaultOps \cup EnumerateOps \cup OpenOps

\* the entry points that ask ext::ALC_CACHE for ALC_ENUMERATE_ALL_EXT
OutputsOps == {"default_output", "enumerate_outputs"}

\* the variants of ext::Alc that is_extension_present matches on
ExtKeys == {"Dedicated", "Disconnect", "Efx", "SoftHrtf", "SoftPauseDevice"}

\* Option<&CStr> given to open: no specifier, one the native API knows,
\* one that matches no native device
Specs == {"None", "known", "NULL_DEVICE"}

\* what an accessor of the global ext::ALC_CACHE can answer (Some / None)
GlobalLookup == {"present", "absent"}

\* EntryPc with default_capture going straight to its native call
EntryPc_NoGate(o) == IF o = "default_capture" THEN "native" ELSE "gate"

\* the first statement of every entry point: (*ALC_INIT)?
EntryPc(o) == "gate"

\* the struct an open function builds
KindOf(o) ==
    CASE o = "Device_open" -> "Device"
      [] o = "LoopbackDevice_open" -> "LoopbackDevice"
      [] o = "CaptureDevice_open" -> "CaptureDevice"

\* the structs with a cache field
HasCache(kind) == kind \in {"Device", "LoopbackDevice"}

\* the structs with an impl Drop that calls alcCloseDevice
HasDrop(kind) == kind \in {"Device", "LoopbackDevice"}

\* LoopbackGuard letting a missing extension through
LoopbackGuard_Always(sl) == "Ok"

\* ext::ALC_CACHE.ALC_SOFT_loopback().ok_or(AlcError::ExtensionNotPresent)
LoopbackGuard(sl) == IF sl = "present" THEN "Ok" ELSE "ExtensionNotPresent"

\* GateCanInit without the once-only guard: every dereference that finds no
\* value yet runs the initializer
GateCanInit_Racy(t) == gateState # "done"

\* ALC_INIT is a lazy_static: the initializer runs for the first dereference only
GateCanInit(t) == gateState = "uninit"

\* GateResult accepting every major version from 1 on
GateResult_AnyMajor(ma, mi) == IF ma >= 1 /\ mi >= 1 THEN "Ok" ELSE "UnsupportedVersion"

\* the value the ALC_INIT initializer computes from the two version numbers
GateResult(ma, mi) == IF ma = 1 /\ mi >= 1 THEN "Ok" ELSE "UnsupportedVersion"

\* OpenResult looking at the handle only
OpenResult_HandleOnly(r, d) == IF d = NullDev THEN "InvalidDevice" ELSE "Ok"

\* OpenResult without the null check
OpenResult_NoNullCheck(r, d) == r

\* the result of an open function once get_error returned r for handle d
OpenResult(r, d) ==
    IF r # "Ok" THEN r
    ELSE IF d = NullDev THEN "InvalidDevice"
    ELSE "Ok"

\* a return is followed at once by the end of the call's locals: no other
\* step can tell the difference, and the model takes none in between
Quiet == \A u \in Threads : pc[u] # "done"

Return(t, r) ==
    /\ pc' = [pc EXCEPT ![t] = "done"]
    /\ res' = [res EXCEPT ![t] = r]

Continue(t, p) ==
    /\ pc' = [pc EXCEPT ![t] = p]
    /\ res' = res

Log(t, events) == trace' = [trace EXCEPT ![t] = @ \o events]

(* -------------------------------- state -------------------------------- *)

InitThreads ==
    /\ pc = [t \in Threads |-> "idle"]
    /\ op = [t \in Threads |-> "none"]
    /\ major = [t \in Threads |-> 0]
    /\ dev = [t \in Threads |-> NullDev]
    /\ spec = [t \in Threads |-> "None"]
    /\ key = [t \in Threads |-> "none"]
    /\ errCode = [t \in Threads |-> ALC_NO_ERROR]
    /\ errRes = [t \in Threads |-> "none"]
    /\ res = [t \in Threads |-> "none"]
    /\ strp = [t \in Threads |-> <<>>]
    /\ list = [t \in Threads |-> <<>>]
    /\ trace = [t \in Threads |-> <<>>]
    /\ calls = 0
    /\ queries = 0

InitDevices ==
    /\ nextDev = 1
    /\ hState = [h \in Handles |-> "unopened"]
    /\ closeCalls = [h \in Handles |-> 0]
    /\ objKind = [h \in Handles |-> "none"]
    /\ objState = [h \in Handles |-> "none"]

\* no struct, no cache
NoCache == [k \in ExtKeys |-> "none"]

\* ext::AlcCache::new(dev): no extension looked up yet
NewCache == [k \in ExtKeys |-> "unpop"]

InitCaches ==
    /\ cache = [h \in Handles |-> NoCache]
    /\ lookups = [h \in Handles |-> [k \in ExtKeys |-> 0]]
    /\ lock = [h \in Handles |-> 0]

NoParse == [res |-> "none", specs |-> <<>>, i |-> 0, reads |-> {}]

InitNoParse ==
    /\ pBuf = <<>>
    /\ pPc = "off"
    /\ pRes = NoParse

Init ==
    /\ verMajor \in 0..MaxVersion
    /\ verMinor \in 0..MaxVersion
    /\ gateState = "uninit"
    /\ gateVal = "none"
    /\ nMajorQ = 0
    /\ nMinorQ = 0
    /\ observed = {}
    /\ lastErr = ALC_NO_ERROR
    /\ InitDevices
    /\ InitCaches
    /\ InitThreads
    /\ InitNoParse

(* ------------------------------- actions ------------------------------- *)

\* a thread's locals at the start of a call; idle threads are
\* interchangeable, the lowest-numbered one makes the call
StartCall(t, o, h, k) ==
    /\ Quiet
    /\ pc[t] = "idle"
    /\ \A u \in Threads : u < t => pc[u] # "idle"
    /\ op' = [op EXCEPT ![t] = o]
    /\ dev' = [dev EXCEPT ![t] = h]
    /\ key' = [key EXCEPT ![t] = k]
    /\ UNCHANGED <<major, spec, errCode, errRes, res, strp, list, trace>>

\* thread t calls entry point o
Call(t, o) ==
    /\ calls < MaxCalls
    /\ calls' = calls + 1
    /\ StartCall(t, o, NullDev, "none")
    /\ pc' = [pc EXCEPT ![t] = EntryPc(o)]
    /\ UNCHANGED <<envVars, gateVars, lastErr, devVars, cacheVars, parseVars, queries>>

\* first dereference of ALC_INIT: the initializer starts, queries ALC_MAJOR_VERSION
GateInitMajor(t) ==
    /\ Quiet
    /\ pc[t] = "gate"
    /\ GateCanInit(t)
    /\ gateState' = "running"
    /\ major' = [major EXCEPT ![t] = verMajor]
    /\ nMajorQ' = nMajorQ + 1
    /\ lastErr' \in ErrAfterNativeCall(lastErr)
    /\ Log(t, <<"ALC_INIT", "version">>)
    /\ pc' = [pc EXCEPT ![t] = "init_minor"]
    /\ UNCHANGED <<envVars, gateVal, nMinorQ, observed, devVars, cacheVars, parseVars>>
    /\ UNCHANGED <<op, dev, spec, key, errCode, errRes, res, strp, list, calls, queries>>

\* the initializer queries ALC_MINOR_VERSION, computes and publishes the value
GateInitMinor(t) ==
    /\ Quiet
    /\ pc[t] = "init_minor"
    /\ nMinorQ' = nMinorQ + 1
    /\ lastErr' \in ErrAfterNativeCall(lastErr)
    /\ gateVal' = GateResult(major[t], verMinor)
    /\ gateState' = "done"
    /\ Log(t, <<"version">>)
    /\ pc' = [pc EXCEPT ![t] = "gate"]
    /\ UNCHANGED <<envVars, nMajorQ, observed, devVars, cacheVars, parseVars>>
    /\ UNCHANGED <<op, major, dev, spec, key, errCode, errRes, res, strp, list, calls, queries>>

\* (*ALC_INIT)? with the value computed: thread t reads it
GateRead(t) ==
    /\ Quiet
    /\ pc[t] = "gate"
    /\ gateState = "done"
    /\ observed' = observed \cup {gateVal}
    /\ UNCHANGED <<envVars, gateState, gateVal, nMajorQ, nMinorQ, lastErr, devVars, cacheVars, parseVars>>
    /\ UNCHANGED <<op, major, dev, spec, key, errCode, errRes, strp, list, calls, queries>>

\* the dereference this call logs, unless it logged it as the initializer
GateEvent(t) == IF trace[t] = <<>> THEN <<"ALC_INIT">> ELSE <<>>

\* default_impl, default_capture, enumerate_impls, enumerate_captures,
\* Device::open: (*ALC_INIT)?, then the native call
Enter(t) ==
    /\ op[t] \in Ops \ (OutputsOps \cup {"LoopbackDevice_open", "CaptureDevice_open"})
    /\ GateRead(t)
    /\ Log(t, GateEvent(t))
    /\ IF gateVal = "Ok" THEN Continue(t, "native") ELSE Return(t, gateVal)

\* default_output, enumerate_outputs: (*ALC_INIT)?, then with
\* ALC_ENUMERATE_ALL_EXT the all-devices query, without it default_impl() /
\* enumerate_impls(), which dereference ALC_INIT again
EnterOutputs(t) ==
    /\ op[t] \in OutputsOps
    /\ GateRead(t)
    /\ IF gateVal = "Ok"
       THEN /\ \E ea \in GlobalLookup :
                 Log(t, GateEvent(t) \o <<"ext", ea>>
                        \o (IF ea = "present" THEN <<>> ELSE <<"ALC_INIT">>))
            /\ Continue(t, "native")
       ELSE /\ Log(t, GateEvent(t))
            /\ Return(t, gateVal)

\* LoopbackDevice::open: (*ALC_INIT)?, then the loopback extension must be there
EnterLoopback(t) ==
    /\ op[t] = "LoopbackDevice_open"
    /\ GateRead(t)
    /\ IF gateVal = "Ok"
       THEN \E sl \in GlobalLookup :
               /\ Log(t, GateEvent(t) \o <<"ext", sl>>)
               /\ IF LoopbackGuard(sl) = "Ok"
                  THEN Continue(t, "native")
                  ELSE Return(t, LoopbackGuard(sl))
       ELSE /\ Log(t, GateEvent(t))
            /\ Return(t, gateVal)

\* impl From<AlError> for AlcError: panic!()
From_AlError == "panic"

\* format.into_raw(None): the raw format, or an error of the AL layer
IntoRawResults == {"Ok", "Err"}

\* CaptureDevice::open: (*ALC_INIT)?, then format.into_raw(None)? ; its Err
\* goes through From<AlError> for AlcError, which panics
EnterCapture(t) ==
    /\ op[t] = "CaptureDevice_open"
    /\ GateRead(t)
    /\ Log(t, GateEvent(t))
    /\ IF gateVal = "Ok"
       THEN \E r \in IntoRawResults :
               IF r = "Ok" THEN Continue(t, "native") ELSE Return(t, From_AlError)
       ELSE Return(t, gateVal)

\* sys::alcGetString(null, ...)
NativeGetString(t) ==
    /\ Quiet
    /\ pc[t] = "native"
    /\ op[t] \in DefaultOps \cup EnumerateOps
    /\ \E b \in NativeStrings : strp' = [strp EXCEPT ![t] = b]
    /\ lastErr' \in ErrAfterNativeCall(lastErr)
    /\ Log(t, <<"string">>)
    /\ pc' = [pc EXCEPT ![t] = "get_error"]
    /\ UNCHANGED <<envVars, gateVars, devVars, cacheVars, parseVars>>
    /\ UNCHANGED <<op, major, dev, spec, key, errCode, errRes, res, list, calls, queries>>

\* alcOpenDevice / alcLoopbackOpenDeviceSOFT / alcCaptureOpenDevice: a fresh
\* handle, or null with or without an error code
NativeOpen(t) ==
    /\ Quiet
    /\ pc[t] = "native"
    /\ op[t] \in OpenOps
    /\ \E s \in Specs :
          /\ spec' = [spec EXCEPT ![t] = s]
          /\ \/ /\ s # "NULL_DEVICE"
                /\ nextDev <= MaxHandles
                /\ dev' = [dev EXCEPT ![t] = nextDev]
                /\ nextDev' = nextDev + 1
                /\ hState' = [hState EXCEPT ![nextDev] = "open"]
                /\ lastErr' = lastErr
             \/ /\ dev' = [dev EXCEPT ![t] = NullDev]
                /\ lastErr' \in ErrAfterNativeCall(lastErr)
                /\ UNCHANGED <<nextDev, hState>>
    /\ Log(t, <<"open">>)
    /\ pc' = [pc EXCEPT ![t] = "get_error"]
    /\ UNCHANGED <<envVars, gateVars, closeCalls, objKind, objState, cacheVars, parseVars>>
    /\ UNCHANGED <<op, major, key, errCode, errRes, res, strp, list, calls, queries>>

\* get_error(null): alcGetError returns the register and clears it
ReadError(t) ==
    /\ Quiet
    /\ pc[t] = "get_error"
    /\ errCode' = [errCode EXCEPT ![t] = lastErr]
    /\ errRes' = [errRes EXCEPT ![t] = get_error(lastErr)]
    /\ lastErr' = ALC_NO_ERROR

\* default_*: get_error(null).map(|_| spec.to_owned())
DefaultFinish(t) ==
    /\ op[t] \in DefaultOps
    /\ ReadError(t)
    /\ Log(t, <<"get_error">>)
    /\ list' = [list EXCEPT ![t] =
                  IF get_error(lastErr) = "Ok" THEN <<CStrOf(strp[t])>> ELSE <<>>]
    /\ Return(t, get_error(lastErr))
    /\ UNCHANGED <<envVars, gateVars, devVars, cacheVars, parseVars>>
    /\ UNCHANGED <<op, major, dev, spec, key, strp, calls, queries>>

\* EnumerateResult parsing the buffer before it looks at the error read
EnumerateResult_Eager(r, gate, buf) ==
    IF r = "Ok"
    THEN parse_enum_spec(gate, buf)
    ELSE [parse_enum_spec(gate, buf) EXCEPT !.res = r, !.specs = <<>>]

\* get_error(null).and_then(|_| parse_enum_spec(spec)): the closure runs for
\* Ok only
EnumerateResult(r, gate, buf) ==
    IF r = "Ok"
    THEN parse_enum_spec(gate, buf)
    ELSE [res |-> r, specs |-> <<>>, i |-> 0, reads |-> {}]

\* enumerate_*: the error read, then the parse; "read" records that bytes of
\* the buffer were read
EnumerateFinish(t) ==
    /\ op[t] \in EnumerateOps
    /\ ReadError(t)
    /\ LET p == EnumerateResult(get_error(lastErr), gateVal, strp[t])
       IN  /\ list' = [list EXCEPT ![t] = p.specs]
           /\ Log(t, <<"get_error">> \o (IF p.reads # {} THEN <<"read">> ELSE <<>>))
           /\ Return(t, p.res)
    /\ observed' = IF get_error(lastErr) = "Ok" THEN observed \cup {gateVal} ELSE observed
    /\ UNCHANGED <<envVars, gateState, gateVal, nMajorQ, nMinorQ, devVars, cacheVars, parseVars>>
    /\ UNCHANGED <<op, major, dev, spec, key, strp, calls, queries>>

\* the open functions after the native call: get_error(null)?, the null
\* check, the struct
OpenFinish(t) ==
    /\ op[t] \in OpenOps
    /\ ReadError(t)
    /\ Log(t, <<"get_error">>)
    /\ Return(t, OpenResult(get_error(lastErr), dev[t]))
    /\ IF OpenResult(get_error(lastErr), dev[t]) = "Ok"
       THEN /\ objKind' = [objKind EXCEPT ![dev[t]] = KindOf(op[t])]
            /\ objState' = [objState EXCEPT ![dev[t]] = "live"]
            /\ cache' = IF HasCache(KindOf(op[t]))
                        THEN [cache EXCEPT ![dev[t]] = NewCache]
                        ELSE cache
       ELSE UNCHANGED <<objKind, objState, cache>>
    /\ UNCHANGED <<envVars, gateVars, nextDev, hState, closeCalls, lookups, lock, parseVars>>
    /\ UNCHANGED <<op, major, dev, spec, key, strp, list, calls, queries>>

\* the call has returned: its locals are dead
Retire(t) ==
    /\ pc[t] = "done"
    /\ pc' = [pc EXCEPT ![t] = "idle"]
    /\ op' = [op EXCEPT ![t] = "none"]
    /\ major' = [major EXCEPT ![t] = 0]
    /\ dev' = [dev EXCEPT ![t] = NullDev]
    /\ spec' = [spec EXCEPT ![t] = "None"]
    /\ key' = [key EXCEPT ![t] = "none"]
    /\ errCode' = [errCode EXCEPT ![t] = ALC_NO_ERROR]
    /\ errRes' = [errRes EXCEPT ![t] = "none"]
    /\ res' = [res EXCEPT ![t] = "none"]
    /\ strp' = [strp EXCEPT ![t] = <<>>]
    /\ list' = [list EXCEPT ![t] = <<>>]
    /\ trace' = [trace EXCEPT ![t] = <<>>]
    /\ UNCHANGED <<envVars, gateVars, lastErr, devVars, cacheVars, parseVars, calls, queries>>

\* a struct dropped while a method borrows it
Unborrowed_Unchecked(h) == TRUE

\* no thread is inside a method of the struct owning h
Unborrowed(h) == \A t \in Threads : dev[t] # h

\* the struct owning h goes out of scope
Drop(h) ==
    /\ Quiet
    /\ objState[h] = "live"
    /\ Unborrowed(h)
    /\ objState' = [objState EXCEPT ![h] = "dropped"]
    /\ IF HasDrop(objKind[h])
       THEN /\ closeCalls' = [closeCalls EXCEPT ![h] = @ + 1]
            /\ hState' = [hState EXCEPT ![h] = "closed"]
            /\ lastErr' \in ErrAfterNativeCall(lastErr)
       ELSE UNCHANGED <<closeCalls, hState, lastErr>>
    /\ UNCHANGED <<envVars, gateVars, nextDev, objKind, cacheVars, thrVars, parseVars>>

Next ==
    \/ \E t \in Threads, o \in Ops : Call(t, o)
    \/ \E t \in Threads : GateInitMajor(t)
    \/ \E t \in Threads : GateInitMinor(t)
    \/ \E t \in Threads : Enter(t)
    \/ \E t \in Threads : EnterOutputs(t)
    \/ \E t \in Threads : EnterLoopback(t)
    \/ \E t \in Threads : EnterCapture(t)
    \/ \E t \in Threads : NativeGetString(t)
    \/ \E t \in Threads : NativeOpen(t)
    \/ \E t \in Threads : DefaultFinish(t)
    \/ \E t \in Threads : EnumerateFinish(t)
    \/ \E t \in Threads : OpenFinish(t)
    \/ \E t \in Threads : Retire(t)
    \/ \E h \in Handles : Drop(h)

Spec == Init /\ [][Next]_vars

(* ------------------- the pure functions on their own ------------------- *)

\* the state parse_enum_spec and get_error are called in: the gate has
\* passed, a native string query has returned a double-zero-terminated
\* buffer, the error register holds whatever the last native call left
InitPure ==
    /\ verMajor = 1
    /\ verMinor = 1
    /\ gateState = "done"
    /\ gateVal = GateResult(verMajor, verMinor)
    /\ nMajorQ = 1
    /\ nMinorQ = 1
    /\ observed = {gateVal}
    /\ lastErr \in {ALC_NO_ERROR} \cup NativeErrors
    /\ InitDevices
    /\ InitCaches
    /\ InitThreads
    /\ pBuf \in ValidBuffers
    /\ pPc = "call"
    /\ pRes = NoParse

\* parse_enum_spec(spec)
ParseCall ==
    /\ pPc = "call"
    /\ pRes' = parse_enum_spec(gateVal, pBuf)
    /\ pPc' = "done"
    /\ UNCHANGED <<envVars, gateVars, lastErr, devVars, cacheVars, thrVars, pBuf>>

\* get_error(null), by thread 1
GetErrorCall ==
    /\ errRes[1] = "none"
    /\ errCode' = [errCode EXCEPT ![1] = lastErr]
    /\ errRes' = [errRes EXCEPT ![1] = get_error(lastErr)]
    /\ lastErr' = ALC_NO_ERROR
    /\ UNCHANGED <<envVars, gateVars, devVars, cacheVars, parseVars>>
    /\ UNCHANGED <<pc, op, major, dev, spec, key, res, strp, list, trace, calls, queries>>

NextPure == ParseCall \/ GetErrorCall

SpecPure == InitPure /\ [][NextPure]_vars

(* ------------------ capability queries on an open device --------------- *)

\* the state after a successful Device::open or LoopbackDevice::open: the
\* gate has passed, handle 1 is open and owned by a live struct whose cache
\* is empty and whose mutex is free
InitQuery ==
    /\ verMajor = 1
    /\ verMinor = 1
    /\ gateState = "done"
    /\ gateVal = GateResult(verMajor, verMinor)
    /\ nMajorQ = 1
    /\ nMinorQ = 1
    /\ observed = {gateVal}
    /\ lastErr \in ErrAfterNativeCall(ALC_NO_ERROR)
    /\ nextDev = 2
    /\ hState = [h \in Handles |-> IF h = 1 THEN "open" ELSE "unopened"]
    /\ closeCalls = [h \in Handles |-> 0]
    /\ \E o \in {"Device_open", "LoopbackDevice_open"} :
          objKind = [h \in Handles |-> IF h = 1 THEN KindOf(o) ELSE "none"]
    /\ objState = [h \in Handles |-> IF h = 1 THEN "live" ELSE "none"]
    /\ cache = [h \in Handles |-> IF h = 1 THEN NewCache ELSE NoCache]
    /\ lookups = [h \in Handles |-> [k \in ExtKeys |-> 0]]
    /\ lock = [h \in Handles |-> 0]
    /\ InitThreads
    /\ InitNoParse

\* thread t calls is_extension_present(k) on the Device / LoopbackDevice owning h
QueryCall(t, h, k) ==
    /\ objState[h] = "live"
    /\ objKind[h] \in {"Device", "LoopbackDevice"}
    /\ queries < MaxQueries
    /\ queries' = queries + 1
    /\ StartCall(t, "is_extension_present", h, k)
    /\ pc' = [pc EXCEPT ![t] = "lock"]
    /\ UNCHANGED <<envVars, gateVars, lastErr, devVars, cacheVars, parseVars, calls>>

\* a lock that does not wait for the guard's holder
CanLock_NoWait(h) == TRUE

\* Mutex::lock returns once no other thread holds the guard
CanLock(h) == lock[h] = 0

\* self.cache.lock().unwrap()
QueryLock(t) ==
    /\ Quiet
    /\ pc[t] = "lock"
    /\ CanLock(dev[t])
    /\ lock' = [lock EXCEPT ![dev[t]] = t]
    /\ pc' = [pc EXCEPT ![t] = "locked"]
    /\ UNCHANGED <<envVars, gateVars, lastErr, devVars, cache, lookups, parseVars>>
    /\ UNCHANGED <<op, major, dev, spec, key, errCode, errRes, res, strp, list, trace, calls, queries>>

\* the cache accessor: the first query of a key asks the native API, later
\* ones read the stored answer
CacheAnswer(stored, native) ==
    IF stored = "unpop" THEN (IF native THEN "present" ELSE "absent") ELSE stored

\* the match on ext calls the accessor of the key: it reads the entry and,
\* finding none, asks the native API; res holds the accessor's answer
QueryLookup(t) ==
    /\ Quiet
    /\ pc[t] = "locked"
    /\ \E native \in BOOLEAN :
          res' = [res EXCEPT ![t] = CacheAnswer(cache[dev[t]][key[t]], native)]
    /\ lookups' = [lookups EXCEPT ![dev[t]][key[t]] =
                      IF cache[dev[t]][key[t]] = "unpop" THEN @ + 1 ELSE @]
    /\ pc' = [pc EXCEPT ![t] = "looked"]
    /\ UNCHANGED <<envVars, gateVars, lastErr, devVars, cache, lock, parseVars>>
    /\ UNCHANGED <<op, major, dev, spec, key, errCode, errRes, strp, list, trace, calls, queries>>

\* a guard that is forgotten instead of dropped
GuardDropped_Forgotten(l, h) == l

\* the MutexGuard goes out of scope: the mutex is free again
GuardDropped(l, h) == [l EXCEPT ![h] = 0]

\* the accessor stores its answer, .is_some() makes it a bool, and the guard
\* is dropped on return
QueryReturn(t) ==
    /\ Quiet
    /\ pc[t] = "looked"
    /\ cache' = [cache EXCEPT ![dev[t]][key[t]] = res[t]]
    /\ Return(t, IF res[t] = "present" THEN "true" ELSE "false")
    /\ lock' = GuardDropped(lock, dev[t])
    /\ UNCHANGED <<envVars, gateVars, lastErr, devVars, lookups, parseVars>>
    /\ UNCHANGED <<op, major, dev, spec, key, errCode, errRes, strp, list, trace, calls, queries>>

NextQuery ==
    \/ \E t \in Threads, h \in Handles, k \in ExtKeys : QueryCall(t, h, k)
    \/ \E t \in Threads : QueryLock(t)
    \/ \E t \in Threads : QueryLookup(t)
    \/ \E t \in Threads : QueryReturn(t)
    \/ \E t \in Threads : Retire(t)
    \/ \E h \in Handles : Drop(h)

SpecQuery == InitQuery /\ [][NextQuery]_vars

\* the same under a scheduler that lets every thread that can step do so
SpecQueryFair ==
    /\ SpecQuery
    /\ \A t \in Threads :
          /\ WF_vars(QueryLock(t))
          /\ WF_vars(QueryLookup(t))
          /\ WF_vars(QueryReturn(t))
          /\ WF_vars(Retire(t))

(* ------------------- concurrent opens, the gate passed ----------------- *)

\* the state once an earlier call has run the gate: the version is accepted,
\* the error register is clean, no device is open
InitOpen ==
    /\ verMajor = 1
    /\ verMinor = 1
    /\ gateState = "done"
    /\ gateVal = GateResult(verMajor, verMinor)
    /\ nMajorQ = 1
    /\ nMinorQ = 1
    /\ observed = {gateVal}
    /\ lastErr = ALC_NO_ERROR
    /\ InitDevices
    /\ InitCaches
    /\ InitThreads
    /\ InitNoParse

\* the threads call the open functions only
NextOpen ==
    \/ \E t \in Threads, o \in OpenOps : Call(t, o)
    \/ \E t \in Threads : Enter(t)
    \/ \E t \in Threads : EnterLoopback(t)
    \/ \E t \in Threads : EnterCapture(t)
    \/ \E t \in Threads : NativeOpen(t)
    \/ \E t \in Threads : OpenFinish(t)
    \/ \E t \in Threads : Retire(t)
    \/ \E h \in Handles : Drop(h)

SpecOpen == InitOpen /\ [][NextOpen]_vars

(* ================================ claims =============================== *)

Range(q) == {q[j] : j \in 1..Len(q)}

\* thread t has returned from entry point o
Returned(t) == pc[t] = "done" /\ op[t] \in Ops

\* thread t has returned from an open function whose native open call gave null
NullOpen(t) ==
    /\ Returned(t)
    /\ op[t] \in OpenOps
    /\ "open" \in Range(trace[t])
    /\ dev[t] = NullDev

(* ---- C1 ---- *)

\* C1: every struct that has been dropped, of any of the three kinds, has had
\* the native close called on its handle exactly once.  Fails: CaptureDevice
\* has no impl Drop, its handle is never closed.
C1_ClosedOnceWhenDropped ==
    \A h \in Handles : objState[h] = "dropped" => closeCalls[h] = 1

(* ---- C2 ---- *)

\* C2 as stated: whenever the native open call returned null, the open
\* function fails with InvalidDevice, whatever the error-state read reported.
C2_NullIsAlwaysInvalidDevice ==
    \A t \in Threads : NullOpen(t) => res[t] = "InvalidDevice"

\* C2 amended: whenever the native open call returned null the open function
\* fails; with InvalidDevice when the error-state read reported no error, and
\* with the translation of the code read otherwise.
C2_NullOpenFails ==
    \A t \in Threads :
        NullOpen(t) =>
            /\ res[t] # "Ok"
            /\ errCode[t] = ALC_NO_ERROR => res[t] = "InvalidDevice"
            /\ errCode[t] # ALC_NO_ERROR => res[t] = errRes[t]
            /\ res[t] = "InvalidDevice" <=> errCode[t] \in {ALC_NO_ERROR, ALC_INVALID_DEVICE}

\* an output device opened with a specifier matching no native device, no
\* error code set: InvalidDevice
C2_Witness ==
    \E t \in Threads :
        /\ NullOpen(t)
        /\ op[t] = "Device_open"
        /\ spec[t] = "NULL_DEVICE"
        /\ errCode[t] = ALC_NO_ERROR
        /\ res[t] = "InvalidDevice"

(* ---- C3 ---- *)

\* C3: parse_enum_spec on a buffer whose first two bytes are zero returns an
\* empty sequence.  Fails: split yields one empty piece for the empty slice.
C3_DoubleZeroParsesEmpty ==
    (pPc = "done" /\ pBuf[1] = 0 /\ pBuf[2] = 0) =>
        (pRes.res = "Ok" /\ Len(pRes.specs) = 0)

(* ---- C4 ---- *)

\* k >= 1 non-empty strings, each followed by one zero byte, then one more
\* zero byte: no zero first, the only double zero is the last two bytes
WellFormed(b) ==
    /\ Len(b) >= 3
    /\ b[1] # 0
    /\ b[Len(b) - 1] = 0
    /\ b[Len(b)] = 0
    /\ \A j \in 1..(Len(b) - 2) : ~(b[j] = 0 /\ b[j + 1] = 0)

\* each string followed by a zero byte, then one more zero byte
RECURSIVE Terminated(_)
Terminated(l) == IF l = <<>> THEN <<0>> ELSE Head(l) \o <<0>> \o Terminated(Tail(l))

\* the number of zero bytes of b
RECURSIVE Zeros(_)
Zeros(b) == IF b = <<>> THEN 0 ELSE (IF Head(b) = 0 THEN 1 ELSE 0) + Zeros(Tail(b))

\* C4: for a buffer of k >= 1 non-empty nul-free strings, each followed by a
\* zero byte, and one more zero byte, parse_enum_spec returns exactly those k
\* strings in order: k elements, all non-empty and nul-free, which laid out
\* again give the buffer.
C4_ParsesTheStrings ==
    (pPc = "done" /\ WellFormed(pBuf)) =>
        /\ pRes.res = "Ok"
        /\ Len(pRes.specs) = Zeros(pBuf) - 1
        /\ \A j \in 1..Len(pRes.specs) : pRes.specs[j] # <<>> /\ ~HasNul(pRes.specs[j])
        /\ Terminated(pRes.specs) = pBuf

\* two strings parsed
C4_Witness ==
    /\ pPc = "done"
    /\ WellFormed(pBuf)
    /\ pBuf = <<1, 0, 2, 0, 0>>
    /\ pRes.specs = <<<<1>>, <<2>>>>

(* ---- C5 ---- *)

\* the elements joined with single zero bytes
RECURSIVE Join(_)
Join(l) ==
    IF l = <<>> THEN <<>>
    ELSE IF Len(l) = 1 THEN Head(l)
    ELSE Head(l) \o <<0>> \o Join(Tail(l))

\* the index of the first of the first two consecutive zero bytes of b
FirstDoubleZero(b) ==
    CHOOSE j \in 1..(Len(b) - 1) :
        /\ b[j] = 0 /\ b[j + 1] = 0
        /\ \A m \in 1..(j - 1) : ~(b[m] = 0 /\ b[m + 1] = 0)

\* C5: for every buffer holding a double zero, the parse result joined with
\* single zero bytes and followed by two zero bytes is the buffer up to and
\* including its first double zero.
C5_RoundTrip ==
    pPc = "done" =>
        /\ pRes.res = "Ok"
        /\ Join(pRes.specs) \o <<0, 0>> = SubSeq(pBuf, 1, FirstDoubleZero(pBuf) + 1)

\* a buffer with an empty first string and bytes after the terminator
C5_Witness ==
    /\ pPc = "done"
    /\ pBuf = <<0, 1, 0, 0, 2>>
    /\ pRes.specs = <<<<>>, <<1>>>>

(* ---- C6 ---- *)

\* C6: the native version query (major and minor) is made once in total,
\* however many threads dereference ALC_INIT first, and every dereference,
\* first or later, returns the one memoized value.
C6_GateOnce ==
    /\ nMajorQ <= 1
    /\ nMinorQ <= 1
    /\ gateState = "done" => (nMajorQ = 1 /\ nMinorQ = 1)
    /\ observed # {} => gateState = "done"
    /\ observed \subseteq {gateVal}

\* both threads called before the value existed, one ran the initializer, and
\* both have read the value
C6_Witness ==
    /\ gateState = "done"
    /\ calls = 2
    /\ \A t \in Threads : trace[t] # <<>> /\ pc[t] \in {"native", "get_error"}
    /\ \E t \in Threads : "version" \in Range(trace[t])
    /\ \E t \in Threads : "version" \notin Range(trace[t])

(* ---- C7 ---- *)

\* C7: the gate's value is Ok exactly when the native API reports major = 1
\* and minor >= 1, and UnsupportedVersion for every other pair.
C7_GateValue ==
    gateState = "done" =>
        /\ gateVal \in {"Ok", "UnsupportedVersion"}
        /\ gateVal = "Ok" <=> (verMajor = 1 /\ verMinor >= 1)

\* a major version above 1 is refused
C7_Witness ==
    /\ gateState = "done"
    /\ verMajor > 1
    /\ verMinor >= 1
    /\ gateVal = "UnsupportedVersion"

(* ---- C8 ---- *)

\* C8: every entry point dereferences ALC_INIT before anything else, and when
\* the gate's value is UnsupportedVersion it returns UnsupportedVersion having
\* issued no string query, extension lookup, error-state read or native open.
C8_GateFirst ==
    \A t \in Threads :
        /\ (op[t] \in Ops /\ pc[t] \in {"native", "get_error", "done"}) =>
              (trace[t] # <<>> /\ trace[t][1] = "ALC_INIT")
        /\ (Returned(t) /\ gateVal = "UnsupportedVersion") =>
              /\ res[t] = "UnsupportedVersion"
              /\ Range(trace[t]) \subseteq {"ALC_INIT", "version"}

\* an open refused by the gate
C8_Witness ==
    \E t \in Threads :
        /\ Returned(t)
        /\ op[t] = "CaptureDevice_open"
        /\ gateVal = "UnsupportedVersion"
        /\ res[t] = "UnsupportedVersion"

(* ---- C9 ---- *)

\* C9: when the gate passes and the loopback extension is absent,
\* LoopbackDevice::open returns ExtensionNotPresent and makes no native open call.
C9_NoLoopbackNoOpen ==
    \A t \in Threads :
        (op[t] = "LoopbackDevice_open" /\ "absent" \in Range(trace[t])) =>
            /\ pc[t] = "done"
            /\ res[t] = "ExtensionNotPresent"
            /\ "open" \notin Range(trace[t])

\* a loopback open with the extension absent
C9_Witness ==
    \E t \in Threads :
        /\ op[t] = "LoopbackDevice_open"
        /\ gateVal = "Ok"
        /\ "absent" \in Range(trace[t])
        /\ res[t] = "ExtensionNotPresent"

(* ---- C10 ---- *)

\* C10: get_error returns Ok exactly when the code read is the no-error code,
\* maps each of the five recognised codes to its own member and every other
\* code to UnknownError, and never yields UnsupportedVersion,
\* ExtensionNotPresent or the Al variant.
C10_Translation ==
    \A t \in Threads :
        errRes[t] # "none" =>
            /\ errRes[t] = "Ok" <=> errCode[t] = ALC_NO_ERROR
            /\ errCode[t] = ALC_INVALID_DEVICE => errRes[t] = "InvalidDevice"
            /\ errCode[t] = ALC_INVALID_CONTEXT => errRes[t] = "InvalidContext"
            /\ errCode[t] = ALC_INVALID_ENUM => errRes[t] = "InvalidEnum"
            /\ errCode[t] = ALC_INVALID_VALUE => errRes[t] = "InvalidValue"
            /\ errCode[t] = ALC_OUT_OF_MEMORY => errRes[t] = "OutOfMemory"
            /\ errCode[t] \in OtherCodes => errRes[t] = "UnknownError"
            /\ errRes[t] \notin {"UnsupportedVersion", "ExtensionNotPresent", "Al"}

\* an unrecognised code read and translated
C10_Witness ==
    \E t \in Threads :
        /\ errCode[t] \in OtherCodes
        /\ errRes[t] = "UnknownError"

(* ---- C11 ---- *)

\* C11: whenever an open function has returned an error, no native handle
\* obtained by that call is still open.  Fails: when the native open gave a
\* handle and the error-state read that follows reports a code, the `?`
\* returns the error and nothing closes the handle.
C11_NoHandleLeftOpen ==
    \A t \in Threads :
        (Returned(t) /\ op[t] \in OpenOps /\ res[t] # "Ok" /\ dev[t] # NullDev) =>
            hState[dev[t]] # "open"

(* ---- C12 ---- *)

\* thread t has returned from is_extension_present
Answered(t) == pc[t] = "done" /\ op[t] = "is_extension_present"

\* C12: for every device and extension key the native lookup is made at most
\* once, whatever the interleaving of the threads' queries; an entry holds an
\* answer exactly when its lookup was made, every query returns the entry's
\* answer, and an entry that holds an answer never changes.
C12_LookupOnce ==
    /\ [](\A h \in Handles, k \in ExtKeys :
            /\ lookups[h][k] <= 1
            /\ cache[h][k] \in {"present", "absent"} => lookups[h][k] = 1)
    /\ [](\A t \in Threads :
            Answered(t) => (res[t] = "true" <=> cache[dev[t]][key[t]] = "present"))
    /\ [][\A h \in Handles, k \in ExtKeys :
            cache[h][k] \in {"present", "absent"} => cache'[h][k] = cache[h][k]]_vars

\* the second of two queries of one key has returned: one lookup was made
C12_Witness ==
    \E t \in Threads :
        /\ Answered(t)
        /\ queries = 2
        /\ \A u \in Threads \ {t} : pc[u] = "idle"
        /\ lookups[dev[t]][key[t]] = 1
        /\ \A k \in ExtKeys \ {key[t]} : lookups[dev[t]][k] = 0

(* ---- C13 ---- *)

\* C13: no call of a public operation ends in the panic of the AlError to
\* AlcError conversion, and no call returns the Al variant.  Fails:
\* CaptureDevice::open applies `?` to format.into_raw(None), whose error is
\* converted by that panic.
C13_NeverAborts ==
    \A t \in Threads :
        (pc[t] = "done" /\ op[t] \in Ops) => res[t] \notin {"panic", "Al"}

(* ---- C14 ---- *)

\* thread t has returned from an enumerate function that made its string query
Enumerated(t) ==
    /\ Returned(t)
    /\ op[t] \in EnumerateOps
    /\ "get_error" \in Range(trace[t])

\* C14: an enumerate function whose error-state read after the string query
\* reported a code returns the translation of that code and has read no byte
\* of the returned buffer; one whose read reported no error returns the parse
\* of the returned buffer.
C14_ErrorBeforeParse ==
    \A t \in Threads :
        Enumerated(t) =>
            IF errCode[t] # ALC_NO_ERROR
            THEN /\ res[t] = get_error(errCode[t])
                 /\ res[t] # "Ok"
                 /\ "read" \notin Range(trace[t])
                 /\ list[t] = <<>>
            ELSE /\ res[t] = parse_enum_spec("Ok", strp[t]).res
                 /\ list[t] = parse_enum_spec("Ok", strp[t]).specs
                 /\ "read" \in Range(trace[t])

\* a string query that returned a buffer and left a code: the code comes back
C14_Witness ==
    \E t \in Threads :
        /\ Enumerated(t)
        /\ strp[t] = <<1, 0, 2, 0, 0>>
        /\ errCode[t] = ALC_OUT_OF_MEMORY
        /\ res[t] = "OutOfMemory"

(* ---- C15 ---- *)

\* the native calls of a trace that can set the error state
SetsError == {"version", "string", "open"}

\* C15: in the native calls a thread issues, each call that can set the error
\* state is followed at once by an error-state read: no other native call
\* comes in between, and the call does not return with the read still to be
\* made.  Fails: the two version queries of ALC_INIT follow each other with
\* no read, and none follows the second.
C15_ReadAfterEveryCall ==
    \A t \in Threads :
        \A j \in 1..Len(trace[t]) :
            trace[t][j] \in SetsError =>
                /\ j < Len(trace[t]) => trace[t][j + 1] = "get_error"
                /\ j = Len(trace[t]) => pc[t] # "done"

(* ---- C16 ---- *)

\* thread t has returned from an open function
Opened(t) == Returned(t) /\ op[t] \in OpenOps

\* C16: an open function returns Ok exactly when the gate passed, the
\* loopback extension (LoopbackDevice::open only) is present, the error-state
\* read after the native open reported no error and the native handle is
\* not null; a struct, as long as it lives, holds a non-null handle that is
\* open; and the cache of a Device or LoopbackDevice just constructed is the
\* one of its handle, with no extension looked up.
C16_OkExactlyWhen ==
    /\ \A t \in Threads :
          Opened(t) =>
              /\ res[t] = "Ok" <=>
                    /\ gateVal = "Ok"
                    /\ op[t] = "LoopbackDevice_open" => "present" \in Range(trace[t])
                    /\ "get_error" \in Range(trace[t])
                    /\ errCode[t] = ALC_NO_ERROR
                    /\ dev[t] # NullDev
              /\ res[t] = "Ok" =>
                    /\ objState[dev[t]] = "live"
                    /\ objKind[dev[t]] = KindOf(op[t])
                    /\ HasCache(KindOf(op[t])) =>
                          /\ cache[dev[t]] = NewCache
                          /\ lock[dev[t]] = 0
                    /\ ~HasCache(KindOf(op[t])) => cache[dev[t]] = NoCache
    /\ \A h \in Handles :
          objState[h] = "live" => (h # NullDev /\ hState[h] = "open")

\* a LoopbackDevice constructed
C16_Witness ==
    \E t \in Threads :
        /\ Opened(t)
        /\ op[t] = "LoopbackDevice_open"
        /\ res[t] = "Ok"
        /\ dev[t] # NullDev
        /\ cache[dev[t]] = NewCache

(* ---- C17 ---- *)

\* thread t is between the lock and the return of is_extension_present
InLockSection(t) == pc[t] \in {"locked", "looked"}

\* C17: for each device at most one thread is inside the lock section of
\* is_extension_present; a thread inside it holds the device's mutex, and the
\* mutex is held by no thread outside it; and under a fair scheduler every
\* query that has been called returns.
C17_ExclusiveAndLive ==
    /\ [](\A t, u \in Threads :
            (InLockSection(t) /\ InLockSection(u) /\ dev[t] = dev[u]) => t = u)
    /\ [](\A t \in Threads : InLockSection(t) => lock[dev[t]] = t)
    /\ [](\A h \in Handles :
            lock[h] # 0 => (InLockSection(lock[h]) /\ dev[lock[h]] = h))
    /\ \A t \in Threads : (pc[t] = "lock") ~> Answered(t)

\* one thread waits for the mutex the other holds
C17_Witness ==
    \E t, u \in Threads :
        /\ pc[t] = "lock"
        /\ InLockSection(u)
        /\ dev[t] = dev[u]
        /\ lock[dev[u]] = u

(* ---- C18 ---- *)

\* the steps a native handle may take
HandleSteps == {<<"unopened", "open">>, <<"open", "closed">>}

\* C18: a native handle only goes from unopened to open and from open to
\* closed; the native close is called on an open handle only, and so at most
\* once; and no thread is inside a capability query of a handle that is not
\* open, however the queries of the threads sharing it interleave.
C18_HandleLifecycle ==
    /\ [][\A h \in Handles :
            /\ hState'[h] # hState[h] => <<hState[h], hState'[h]>> \in HandleSteps
            /\ closeCalls'[h] # closeCalls[h] =>
                  /\ hState[h] = "open"
                  /\ hState'[h] = "closed"
                  /\ closeCalls'[h] = closeCalls[h] + 1]_vars
    /\ [](\A h \in Handles :
            /\ closeCalls[h] <= 1
            /\ hState[h] = "closed" <=> closeCalls[h] = 1)
    /\ [](\A t \in Threads :
            op[t] = "is_extension_present" => hState[dev[t]] = "open")

\* a device closed after both threads queried it
C18_Witness ==
    /\ hState[1] = "closed"
    /\ closeCalls[1] = 1
    /\ queries = 2
    /\ \E k \in ExtKeys : lookups[1][k] = 1

(* ---- C19 ---- *)

\* C19: an open function that made its native open call returns an error, and
\* reads a code from the error register, only when its own native open call
\* failed, whatever the other thread does in between.  Fails: the register is
\* one for all threads, and the read of one open takes the code the native
\* open of the other left.
C19_OwnErrorOnly ==
    \A t \in Threads :
        (Opened(t) /\ "get_error" \in Range(trace[t]) /\ dev[t] # NullDev) =>
            /\ errCode[t] = ALC_NO_ERROR
            /\ res[t] = "Ok"

(* ---- C20 ---- *)

\* C20: for every buffer holding a double zero the scan loop of
\* parse_enum_spec ends, at the first offset i whose byte and the next are
\* both zero; it reads no byte at an offset above i + 1; and every element
\* returned is free of zero bytes, so that CString::new never fails.
C20_ScanStopsAtDoubleZero ==
    pPc = "done" =>
        /\ pRes.res = "Ok"
        /\ pRes.i = FirstDoubleZero(pBuf) - 1
        /\ \A r \in pRes.reads : r >= 0 /\ r <= pRes.i + 1
        /\ \A j \in 1..Len(pRes.specs) : ~HasNul(pRes.specs[j])

\* a buffer with bytes after its double zero: they are not read
C20_Witness ==
    /\ pPc = "done"
    /\ pBuf = <<1, 0, 0, 2, 0>>
    /\ pRes.i = 1
    /\ pRes.reads = {0, 1, 2}
    /\ pRes.specs = <<<<1>>>>

====
